---- MODULE Spec2Model ----
(***************************************************************************)
(* Finance Intelligence Dashboard: the analytics pipeline of Code/utils.py *)
(* and Code/visualize.py as a state machine over one transaction table.    *)
(*                                                                         *)
(* The state is the table loaded into the session (session), the filtered  *)
(* table the components of one run are given (df), the outcome of the      *)
(* seeded isolation forest for the Amount columns it has been fitted on    *)
(* (isoMemo) and the observable outcome of the last call (ret).  Every     *)
(* component is one action; a component that writes columns into the table *)
(* it is given changes df.  The helpers of utils.py that take no table are *)
(* exercised on enumerated arguments by a specification of their own, and  *)
(* so is the loading of main over reruns with changing uploads.            *)
(*                                                                         *)
(* Amounts are integers and every float quotient is kept as an exact       *)
(* fraction [n, d], so rounding of IEEE doubles is outside the model.      *)
(***************************************************************************)
EXTENDS Integers, Sequences, FiniteSets, TLC

VARIABLES session, df, isoMemo, ret

vars == <<session, df, isoMemo, ret>>

(***************************************************************************)
(* Bounds of the model.                                                    *)
(***************************************************************************)
\* rows of an enumerated ledger
MaxRows == 2
\* calendar months spanned by a one-expense-per-month ledger
MaxMonths == 7
\* largest forecast horizon requested
MaxHorizon == 2
\* distinct anomaly-score levels the fitted forest can give
ScoreLevels == 2
\* largest mean and threshold handed to describe_cluster
MaxLevel == 3
\* longest series handed to months_sorted
MaxSeries == 3

(***************************************************************************)
(* Dates, periods and their conversions.                                   *)
(***************************************************************************)
\* pandas Timestamp: calendar date and hour
Timestamp(y, m, d, h) == [y |-> y, m |-> m, d |-> d, h |-> h]

\* pandas Period of frequency "M"
Period(y, m) == [y |-> y, m |-> m]

\* Series.dt.to_period("M"): the calendar year and month, day dropped
ToPeriodDayKept(t) == [y |-> t.y, m |-> t.m, d |-> t.d]
ToPeriod(t) == Period(t.y, t.m)

\* Period.to_timestamp(): the first instant of the month
ToTimestamp(p) == Timestamp(p.y, p.m, 1, 0)

\* the month k months after period p (date_range / period arithmetic)
AddMonths(p, k) ==
    LET ord == p.y * 12 + (p.m - 1) + k
    IN  Period(ord \div 12, (ord % 12) + 1)

\* chronological order of periods and timestamps
PeriodLess(p, q) == p.y < q.y \/ (p.y = q.y /\ p.m < q.m)
TimestampLess(s, t) ==
    \/ s.y < t.y
    \/ s.y = t.y /\ s.m < t.m
    \/ s.y = t.y /\ s.m = t.m /\ s.d < t.d
    \/ s.y = t.y /\ s.m = t.m /\ s.d = t.d /\ s.h < t.h

\* a Month cell is a Period (two fields) or a Timestamp (four fields)
IsPeriod(c) == DOMAIN c = {"y", "m"}
CellLess(a, b) == IF IsPeriod(a) THEN PeriodLess(a, b) ELSE TimestampLess(a, b)

\* strftime("%Y-%m") of a timestamp: the text "YYYY-MM" as <<year, month>>
StrftimeYm(t) == <<t.y, t.m>>

\* astype(str) of a Month cell: "YYYY-MM" for a Period, "YYYY-MM-DD" for a
\* Timestamp at midnight
AsTypeStr(c) == IF IsPeriod(c) THEN <<c.y, c.m>> ELSE <<c.y, c.m, c.d>>

(***************************************************************************)
(* Exact fractions standing for the float results.                         *)
(***************************************************************************)
Frac(n, d) == [n |-> n, d |-> d]
Zero == Frac(0, 1)
FracEq(a, b) == a.n * b.d = b.n * a.d
FracLess(a, b) == a.n * b.d < b.n * a.d
FracSub(a, b) == Frac(a.n * b.d - b.n * a.d, a.d * b.d)
\* a / b for b > 0
FracDiv(a, b) == Frac(a.n * b.d, a.d * b.n)
FracTimes(a, k) == Frac(a.n * k, a.d)

(***************************************************************************)
(* Data frames: a set of column names and a sequence of rows (records).    *)
(***************************************************************************)
Frame(cols, rows) == [columns |-> cols, rows |-> rows]

\* pd.DataFrame(): no columns, no rows
EmptyFrame == Frame({}, <<>>)

\* DataFrame.empty: some axis has length 0
IsEmptyNoColumns(f) == f.columns = {}
IsEmpty(f) == f.rows = <<>> \/ f.columns = {}

\* df[c] = v, row by row: the column is added, or overwritten when present
SetCell(r, c, v) == [f \in (DOMAIN r) \cup {c} |-> IF f = c THEN v ELSE r[f]]
SetColumn(f, c, Val(_)) ==
    Frame(f.columns \cup {c}, [i \in 1..Len(f.rows) |-> SetCell(f.rows[i], c, Val(i))])

\* df[mask]: the rows that satisfy the mask, all columns kept
Filter(f, Keep(_)) == Frame(f.columns, SelectSeq(f.rows, Keep))

RECURSIVE SumSeq(_)
SumSeq(s) == IF s = <<>> THEN 0 ELSE Head(s) + SumSeq(Tail(s))

Abs(x) == IF x < 0 THEN -x ELSE x

\* Series of one column
Column(f, c) == [i \in 1..Len(f.rows) |-> f.rows[i][c]]
Values(s) == {s[i] : i \in 1..Len(s)}

(***************************************************************************)
(* The ledgers the dashboard is run on.  Every component aggregates by key *)
(* and is insensitive to the order of the rows, so the enumerated ledgers  *)
(* are taken up to permutation of their rows: the rows of a ledger follow  *)
(* the (non-chronological) order of RowPool.                               *)
(***************************************************************************)
LedgerDates ==
    << Timestamp(2025, 1, 15, 0), Timestamp(2024, 1, 15, 0),
       Timestamp(2025, 1, 1, 0), Timestamp(2024, 12, 15, 0) >>

LedgerEntries ==
    << [Category |-> "Salary", Amount |-> 3], [Category |-> "Salary", Amount |-> -1],
       [Category |-> "Food", Amount |-> -2], [Category |-> "salary", Amount |-> 1] >>

PoolSize == Len(LedgerDates) * Len(LedgerEntries)

RowPool(p) ==
    LET e == LedgerEntries[((p - 1) % Len(LedgerEntries)) + 1]
    IN  [Date |-> LedgerDates[((p - 1) \div Len(LedgerEntries)) + 1],
         Category |-> e.Category, Amount |-> e.Amount]

ShortLedgers ==
    LET picks == UNION {[1..n -> 1..PoolSize] : n \in 0..MaxRows}
        sorted == {s \in picks : \A i \in 1..(Len(s) - 1) : s[i] <= s[i + 1]}
    IN  {[i \in 1..Len(s) |-> RowPool(s[i])] : s \in sorted}

\* forecast_expenses: if len(monthly) < 6
MinObservations == 6

\* one expense row in each month of a set of months counted from FirstMonth
FirstMonth == Period(2024, 7)

MonthlyRow(k) ==
    LET p == AddMonths(FirstMonth, k - 1)
    IN  [Date |-> Timestamp(p.y, p.m, 5, 0), Category |-> "Food",
         Amount |-> -(1 + (k % 3))]

Nth(S, i) == CHOOSE k \in S : Cardinality({j \in S : j < k}) = i - 1

\* the months of a monthly ledger: the first j months, from one month short
\* of the forecast's minimum on, all the months but one, or every second
\* month
MonthSets ==
    {1..j : j \in (MinObservations - 1)..MaxMonths}
        \cup {(1..MaxMonths) \ {g} : g \in 1..MaxMonths}
        \cup {{2 * j - 1 : j \in 1..MinObservations}}

MonthlyLedgers ==
    {[i \in 1..Cardinality(S) |-> MonthlyRow(Nth(S, i))] : S \in MonthSets}

Ledgers == ShortLedgers \cup MonthlyLedgers

(***************************************************************************)
(* utils.py                                                                *)
(***************************************************************************)
\* load_data: the parsed rows plus the Month column, the period of each Date
LoadData(rows) ==
    SetColumn(Frame({"Date", "Category", "Amount"}, rows), "Month",
              LAMBDA i : ToPeriod(rows[i].Date))

\* pd.read_csv(file, parse_dates=["Date"]): the Date texts "YYYY-MM-DD" of the
\* file parsed into timestamps
ParseDate(text) == Timestamp(text[1], text[2], text[3], 0)
ReadCsv(file) == [i \in 1..Len(file) |-> [file[i] EXCEPT !.Date = ParseDate(@)]]

\* preprocess_data: Date parsed with pd.to_datetime, then the Month column
PreprocessData(f) ==
    LET dated == SetColumn(f, "Date", LAMBDA i : ParseDate(f.rows[i].Date))
    IN  SetColumn(dated, "Month", LAMBDA i : ToPeriod(dated.rows[i].Date))

\* the outcome of a component call, as its caller observes it
Outcome(op, arg, horizon, outcome, kpis, frame, status, fitted) ==
    [op |-> op, arg |-> arg, horizon |-> horizon, outcome |-> outcome,
     kpis |-> kpis, frame |-> frame, status |-> status, fitted |-> fitted,
     summary |-> EmptyFrame, value |-> <<>>]

NoCall == Outcome("none", EmptyFrame, 0, "none", <<>>, EmptyFrame, {}, FALSE)

Amounts(f) == Column(f, "Amount")

\* df[df["Category"] == "Salary"]["Amount"].sum()
TotalIncomeAnyPositive(f) ==
    SumSeq(Amounts(Filter(f, LAMBDA r : r.Amount > 0)))
TotalIncome(f) ==
    SumSeq(Amounts(Filter(f, LAMBDA r : r.Category = "Salary")))

\* df[df["Amount"] < 0]["Amount"].abs().sum()
AbsExpenseSumSigned(f) ==
    SumSeq(Amounts(Filter(f, LAMBDA r : r.Amount < 0)))
AbsExpenseSum(f) ==
    LET e == Amounts(Filter(f, LAMBDA r : r.Amount < 0))
    IN  SumSeq([i \in 1..Len(e) |-> Abs(e[i])])

\* the table compute_kpis leaves behind: df["Month"] = df["Date"].dt.to_period("M")
KpisTable(f) ==
    IF IsEmpty(f) THEN f
    ELSE SetColumn(f, "Month", LAMBDA i : ToPeriod(f.rows[i].Date))

\* df["Month"].nunique()
MonthsCountExpenseOnly(f) ==
    Cardinality(Values(Column(Filter(KpisTable(f), LAMBDA r : r.Amount < 0), "Month")))
MonthsCount(f) == Cardinality(Values(Column(KpisTable(f), "Month")))

\* savings_rate = (savings / income * 100) if total_income > 0 else 0
SavingsRateUngated(total, income, savings) ==
    IF income.n # 0 THEN FracTimes(FracDiv(savings, income), 100) ELSE Zero
SavingsRate(total, income, savings) ==
    IF total > 0 THEN FracTimes(FracDiv(savings, income), 100) ELSE Zero

\* compute_kpis: (income, total_expense, savings, savings_rate)
Kpis(f) ==
    IF IsEmpty(f) THEN <<Zero, Zero, Zero, Zero>>
    ELSE LET months_count == MonthsCount(f)
             total_income == TotalIncome(f)
             total_expense == IF months_count > 0
                              THEN Frac(AbsExpenseSum(f), months_count) ELSE Zero
             income == IF months_count > 0
                       THEN Frac(total_income, months_count) ELSE Zero
             savings == FracSub(income, total_expense)
         IN  <<income, total_expense, savings,
               SavingsRate(total_income, income, savings)>>

ComputeKpis ==
    /\ df' = KpisTable(df)
    /\ ret' = Outcome("compute_kpis", df, 0, "returned", Kpis(df), EmptyFrame, {}, FALSE)
    /\ UNCHANGED <<session, isoMemo>>

(***************************************************************************)
(* visualize.py: show_anomalies                                            *)
(***************************************************************************)
\* IsolationForest(contamination=0.05, ...): the decision threshold is the
\* 5th percentile of the training scores
ContaminationPercent == 5

\* IsolationForest(..., random_state=42)
IsoRandomState == 42

\* the j-th smallest element (from 0) of a sequence of integers
Kth(s, j) ==
    CHOOSE v \in Values(s) :
        /\ Cardinality({i \in 1..Len(s) : s[i] < v}) <= j
        /\ j < Cardinality({i \in 1..Len(s) : s[i] <= v})

\* 100 * numpy.percentile(s, q), linear interpolation between order statistics
Percentile100(s, q) ==
    LET h100 == q * (Len(s) - 1)
        lo == h100 \div 100
        hi == IF lo + 1 < Len(s) THEN lo + 1 ELSE lo
    IN  100 * Kth(s, lo) + (h100 - 100 * lo) * (Kth(s, hi) - Kth(s, lo))

\* predict of a forest whose score of a sample is score[its amount]: -1 where
\* the score lies below the contamination percentile of the scores, else 1
IsoLabelsAtOrBelow(X, score) ==
    LET s == [i \in 1..Len(X) |-> score[X[i]]]
    IN  [i \in 1..Len(X) |->
            IF 100 * s[i] <= Percentile100(s, ContaminationPercent) THEN -1 ELSE 1]
IsoLabels(X, score) ==
    LET s == [i \in 1..Len(X) |-> score[X[i]]]
    IN  [i \in 1..Len(X) |->
            IF 100 * s[i] < Percentile100(s, ContaminationPercent) THEN -1 ELSE 1]

\* what fit_predict can return on the column X: the forest is built from
\* random splits, so its score is some function of the sample's amount
IsoPredictions(X) == {IsoLabels(X, score) : score \in [Values(X) -> 1..ScoreLevels]}

\* iso.fit_predict(df[["Amount"]]) with the generator seeded by random_state:
\* the same seed and the same column rebuild the same forest
IsoFitPredictUnseeded(X, memo) == IsoPredictions(X)
IsoFitPredict(X, memo) ==
    IF <<IsoRandomState, X>> \in DOMAIN memo
    THEN {memo[<<IsoRandomState, X>>]}
    ELSE IsoPredictions(X)

Memoize(memo, key, val) ==
    [k \in (DOMAIN memo) \cup {key} |-> IF k = key THEN val ELSE memo[k]]

\* anomalies = df[df["Anomaly"] == -1]
AnomaliesKeepNormal(marked) == Filter(marked, LAMBDA r : r.Anomaly = 1)
Anomalies(marked) == Filter(marked, LAMBDA r : r.Anomaly = -1)

\* the feature matrix the forest is fitted on: df[["Amount"]]
IsoFeaturesWithLabels(f) ==
    [i \in 1..Len(f.rows) |->
        IF "Anomaly" \in f.columns THEN f.rows[i].Amount + f.rows[i].Anomaly
        ELSE f.rows[i].Amount]
IsoFeatures(f) == Amounts(f)

ShowAnomalies ==
    IF IsEmpty(df)
    THEN /\ ret' = Outcome("show_anomalies", df, 0, "returned", <<>>, EmptyFrame,
                           {"warning: No data to detect anomalies."}, FALSE)
         /\ UNCHANGED <<session, df, isoMemo>>
    ELSE \E X \in {IsoFeatures(df)} :
         \E labels \in IsoFitPredict(X, isoMemo) :
         \E marked \in {SetColumn(df, "Anomaly", LAMBDA i : labels[i])} :
            /\ df' = marked
            /\ isoMemo' = Memoize(isoMemo, <<IsoRandomState, X>>, labels)
            /\ ret' = Outcome("show_anomalies", df, 0, "returned", <<>>,
                              Anomalies(marked), {}, TRUE)
            /\ UNCHANGED session

(***************************************************************************)
(* visualize.py: forecast_expenses                                         *)
(***************************************************************************)
\* expenses = df[df["Amount"] < 0].copy(); expenses["Amount"] = abs
ExpensesAllRows(f) ==
    [i \in 1..Len(f.rows) |-> [f.rows[i] EXCEPT !.Amount = Abs(@)]]
Expenses(f) ==
    LET e == SelectSeq(f.rows, LAMBDA r : r.Amount < 0)
    IN  [i \in 1..Len(e) |-> [e[i] EXCEPT !.Amount = Abs(@)]]

AmountSum(rows) == SumSeq([i \in 1..Len(rows) |-> rows[i].Amount])

\* rows.groupby(key)["Amount"].sum(): one entry per key, in key order
GroupSum(rows, Key(_), Less(_, _)) ==
    LET keys == {Key(rows[i]) : i \in 1..Len(rows)}
        kth(i) == CHOOSE k \in keys : Cardinality({j \in keys : Less(j, k)}) = i - 1
    IN  [i \in 1..Cardinality(keys) |->
            [Month |-> kth(i),
             Amount |-> AmountSum(SelectSeq(rows, LAMBDA r : Key(r) = kth(i)))]]

\* monthly = expenses.groupby(expenses["Date"].dt.to_period("M"))["Amount"].sum()
\* monthly.index = monthly.index.to_timestamp()
MonthlySeriesAllRows(f) ==
    LET g == GroupSum(ExpensesAllRows(f), LAMBDA r : ToPeriod(r.Date), PeriodLess)
    IN  [i \in 1..Len(g) |-> [g[i] EXCEPT !.Month = ToTimestamp(@)]]
MonthlySeries(f) ==
    LET g == GroupSum(Expenses(f), LAMBDA r : ToPeriod(r.Date), PeriodLess)
    IN  [i \in 1..Len(g) |-> [g[i] EXCEPT !.Month = ToTimestamp(@)]]

\* months between two periods
MonthsBetween(p, q) == (q.y * 12 + q.m) - (p.y * 12 + p.m)

\* the frequency inferred from the dates of the series: the number of months
\* from each observation to the next when that is the same all along, 0 when
\* no frequency can be inferred
InferredStep(monthly) ==
    LET step == MonthsBetween(monthly[1].Month, monthly[2].Month)
    IN  IF \A i \in 1..(Len(monthly) - 1) :
              MonthsBetween(monthly[i].Month, monthly[i + 1].Month) = step
        THEN step ELSE 0

\* the model uses the date index only when it has a frequency; otherwise the
\* index is ignored and the forecast is indexed by integers
HasFrequency(monthly) == InferredStep(monthly) > 0

\* the index of results.get_forecast(steps).predicted_mean on a dated series:
\* the steps dates that follow the last observation at the series' frequency
ForecastIndexFromLast(monthly, steps) ==
    [i \in 1..steps |->
        ToTimestamp(AddMonths(ToPeriod(monthly[Len(monthly)].Month),
                              InferredStep(monthly) * (i - 1)))]
ForecastIndex(monthly, steps) ==
    [i \in 1..steps |->
        ToTimestamp(AddMonths(ToPeriod(monthly[Len(monthly)].Month),
                              InferredStep(monthly) * i))]

ForecastColumns == {"Month", "Predicted_Expense", "Lower_CI", "Upper_CI"}

\* forecast_df: the month label of each step; the numeric estimates of the
\* fitted model are kept abstract
ForecastFrame(index) ==
    Frame(ForecastColumns,
          [i \in 1..Len(index) |->
              [Month |-> StrftimeYm(index[i]), Predicted_Expense |-> "estimate",
               Lower_CI |-> "estimate", Upper_CI |-> "estimate"]])

\* lines 158-169, after a successful fit: get_forecast rejects a horizon
\* below one step, and an integer forecast index has no strftime
Projection(f, monthly, steps) ==
    IF steps < 1
    THEN Outcome("forecast_expenses", f, steps, "raised", <<>>, EmptyFrame,
                 {"ValueError"}, TRUE)
    ELSE IF ~HasFrequency(monthly)
    THEN Outcome("forecast_expenses", f, steps, "raised", <<>>, EmptyFrame,
                 {"AttributeError"}, TRUE)
    ELSE Outcome("forecast_expenses", f, steps, "returned", <<>>,
                 ForecastFrame(ForecastIndex(monthly, steps)), {}, TRUE)

\* forecast_expenses(df, forecast_months), monthly being the series it
\* aggregates from df; fitOK is whether SARIMAX(...) and model.fit(...)
\* complete without raising
ForecastNoMinimum(f, monthly, steps, fitOK) ==
    IF IsEmpty(f) \/ monthly = <<>>
    THEN Outcome("forecast_expenses", f, steps, "returned", <<>>, EmptyFrame,
                 {"warning: No data to forecast expenses."}, FALSE)
    ELSE IF ~fitOK
    THEN Outcome("forecast_expenses", f, steps, "returned", <<>>, EmptyFrame,
                 {"error: Forecasting error"}, TRUE)
    ELSE Projection(f, monthly, steps)
Forecast(f, monthly, steps, fitOK) ==
    IF IsEmpty(f)
    THEN Outcome("forecast_expenses", f, steps, "returned", <<>>, EmptyFrame,
                 {"warning: No data to forecast expenses."}, FALSE)
    ELSE IF Len(monthly) < MinObservations
    THEN Outcome("forecast_expenses", f, steps, "returned", <<>>, EmptyFrame,
                 {"warning: Not enough monthly data for ARIMA forecasting."}, FALSE)
    ELSE IF ~fitOK
    THEN Outcome("forecast_expenses", f, steps, "returned", <<>>, EmptyFrame,
                 {"error: Forecasting error"}, TRUE)
    ELSE Projection(f, monthly, steps)

\* the outcomes of the fit that can matter: none when the fit is not reached
FitOutcomes(f, monthly) ==
    IF IsEmpty(f) \/ Len(monthly) < MinObservations THEN {TRUE} ELSE BOOLEAN

ForecastExpenses ==
    \E monthly \in {MonthlySeries(df)} :
    \E steps \in 0..MaxHorizon, fitOK \in FitOutcomes(df, monthly) :
        /\ ret' = Forecast(df, monthly, steps, fitOK)
        /\ UNCHANGED <<session, df, isoMemo>>

(***************************************************************************)
(* visualize.py: spending_clusters                                         *)
(***************************************************************************)
\* text + "-01"
AppendDay(text) == Append(text, 1)

\* pd.to_datetime of "YYYY-MM-DD" (midnight) and of "YYYY-MM-DD-HH", where
\* the two digits that follow a complete date are read as the hour
ToDatetime(text) ==
    IF Len(text) = 3 THEN Timestamp(text[1], text[2], text[3], 0)
    ELSE Timestamp(text[1], text[2], text[3], text[4])

\* monthly = monthly_expenses.groupby(monthly_expenses["Month"])["Amount"].sum()
\*           .reset_index(); Month as text; Month_dt parsed from Month + "-01"
MonthlyAggregateAllRows(f) ==
    LET g == GroupSum(ExpensesAllRows(f), LAMBDA r : r.Month, CellLess)
    IN  Frame({"Month", "Amount", "Month_dt"},
              [i \in 1..Len(g) |->
                  [Month |-> AsTypeStr(g[i].Month), Amount |-> g[i].Amount,
                   Month_dt |-> ToDatetime(AppendDay(AsTypeStr(g[i].Month)))]])
MonthlyAggregate(f) ==
    LET g == GroupSum(Expenses(f), LAMBDA r : r.Month, CellLess)
    IN  Frame({"Month", "Amount", "Month_dt"},
              [i \in 1..Len(g) |->
                  [Month |-> AsTypeStr(g[i].Month), Amount |-> g[i].Amount,
                   Month_dt |-> ToDatetime(AppendDay(AsTypeStr(g[i].Month)))]])

\* n_clusters = min(3, n_samples)
MaxClusters == 3
NClustersFixed(n) == MaxClusters
NClustersAtLeastOne(n) == IF n < 1 THEN 1 ELSE IF n < MaxClusters THEN n ELSE MaxClusters
NClusters(n) == IF n < MaxClusters THEN n ELSE MaxClusters

\* kmeans.labels_ of KMeans(n_clusters=k).fit on the values X: every sample
\* carries the id of a nearest centre, the centre of a non-empty cluster is
\* the mean of its members, and equal samples share their id
KMeansLabels(X, k) ==
    LET n == Len(X)
        ids == 0..(k - 1)
        valid(a) ==
            LET size == [c \in ids |-> Cardinality({i \in 1..n : a[X[i]] = c})]
                total == [c \in ids |-> SumSeq([i \in 1..n |-> IF a[X[i]] = c THEN X[i] ELSE 0])]
            IN  \* |x - mean(own)| <= |x - mean(e)|, cross-multiplied by the sizes
                \A x \in Values(X) : \A e \in ids :
                    size[e] > 0 =>
                        Abs(x * size[a[x]] - total[a[x]]) * size[e]
                            <= Abs(x * size[e] - total[e]) * size[a[x]]
    IN  {[i \in 1..n |-> a[X[i]]] : a \in {b \in [Values(X) -> ids] : valid(b)}}

\* labels_.astype(str)
ClusterIds == <<"0", "1", "2">>
IntToStrFromOne(l) == <<"1", "2", "3">>[l + 1]
IntToStr(l) == ClusterIds[l + 1]

\* cluster_colors: the palette of the scatter plot, keyed by cluster id
ClusterColors ==
    ("0" :> "rgb(220, 20, 60)") @@ ("1" :> "rgb(34, 139, 34)")
        @@ ("2" :> "rgb(30, 144, 255)")

\* utils.color_dot: the HTML of a dot in cluster_colors.get(cluster, "gray")
Dot(color) == <<"<span style='color:", color, "; font-size:20px;'>&#9679;</span>">>
ColorDotNoDefault(cluster, cluster_colors) ==
    Dot(IF cluster \in DOMAIN cluster_colors THEN cluster_colors[cluster]
        ELSE "None")
ColorDot(cluster, cluster_colors) ==
    Dot(IF cluster \in DOMAIN cluster_colors THEN cluster_colors[cluster]
        ELSE "gray")

\* strftime("%b")
MonthAbbr ==
    <<"Jan", "Feb", "Mar", "Apr", "May", "Jun",
      "Jul", "Aug", "Sep", "Oct", "Nov", "Dec">>
StrftimeB(t) == MonthAbbr[t.m]

\* utils.months_sorted: ", ".join(series.sort_values().dt.strftime("%b")),
\* the joined text kept as the sequence of its comma-separated parts
MonthsUnsorted(series) == [i \in 1..Len(series) |-> StrftimeB(series[i])]
MonthsSorted(series) ==
    LET sorted == SortSeq(series, TimestampLess)
    IN  [i \in 1..Len(sorted) |-> StrftimeB(sorted[i])]

\* utils.describe_cluster
DescribeClusterExclusive(avg, q1, q2) ==
    IF ~FracLess(q1, avg) THEN "Low spending month"
    ELSE IF ~FracLess(q2, avg) THEN "Medium spending month"
    ELSE "High spending month"
DescribeClusterInverted(avg, q1, q2) ==
    IF FracLess(avg, q1) THEN "High spending month"
    ELSE IF FracLess(avg, q2) THEN "Medium spending month"
    ELSE "Low spending month"
DescribeCluster(avg, q1, q2) ==
    IF FracLess(avg, q1) THEN "Low spending month"
    ELSE IF FracLess(avg, q2) THEN "Medium spending month"
    ELSE "High spending month"

RECURSIVE ProdSeq(_)
ProdSeq(s) == IF s = <<>> THEN 1 ELSE Head(s) * ProdSeq(Tail(s))

\* Series.quantile(q / 100) of a series of fractions, linear interpolation
\* between the order statistics
FirstQuantile == 33
SecondQuantile == 66
QuantileLower(s, q) ==
    LET D == ProdSeq([i \in 1..Len(s) |-> s[i].d])
        scaled == [i \in 1..Len(s) |-> s[i].n * (D \div s[i].d)]
    IN  Frac(Kth(scaled, (q * (Len(s) - 1)) \div 100), D)
Quantile(s, q) ==
    LET D == ProdSeq([i \in 1..Len(s) |-> s[i].d])
        scaled == [i \in 1..Len(s) |-> s[i].n * (D \div s[i].d)]
    IN  Frac(Percentile100(scaled, q), 100 * D)

\* cluster_summary: monthly.groupby("Cluster") with the mean Amount and the
\* sorted months of each cluster, then the Description and Color columns
SummaryColumns == {"Cluster", "Description", "Amount", "Months", "Color"}
MeanAmountAsSum(rows) == Frac(AmountSum(rows), 1)
MeanAmount(rows) == Frac(AmountSum(rows), Len(rows))
ClusterSummary(clustered) ==
    LET present == {clustered.rows[i].Cluster : i \in 1..Len(clustered.rows)}
        ids == SelectSeq(ClusterIds, LAMBDA c : c \in present)
        members == [c \in present |-> SelectSeq(clustered.rows, LAMBDA r : r.Cluster = c)]
        amount == [i \in 1..Len(ids) |-> MeanAmount(members[ids[i]])]
        q1 == Quantile(amount, FirstQuantile)
        q2 == Quantile(amount, SecondQuantile)
    IN  Frame(SummaryColumns,
              [i \in 1..Len(ids) |->
                  [Cluster |-> ids[i],
                   Description |-> DescribeCluster(amount[i], q1, q2),
                   Amount |-> amount[i],
                   Months |-> MonthsSorted([k \in 1..Len(members[ids[i]]) |->
                                               members[ids[i]][k].Month_dt]),
                   Color |-> ColorDot(ids[i], ClusterColors)]])

SpendingClusters ==
    /\ UNCHANGED <<session, df, isoMemo>>
    /\ IF IsEmpty(df)
       THEN ret' = Outcome("spending_clusters", df, 0, "returned", <<>>, EmptyFrame,
                           {"warning: No data to perform clustering."}, FALSE)
       ELSE \E monthly \in {MonthlyAggregate(df)} :
            \E n_clusters \in {NClusters(Len(monthly.rows))} :
                IF n_clusters < 1
                THEN ret' = Outcome("spending_clusters", df, 0, "returned", <<>>, monthly,
                                    {"warning: Not enough data to perform clustering."}, FALSE)
                ELSE \E X \in {Amounts(monthly)} :
                     \E L \in KMeansLabels(X, n_clusters) :
                     \E clustered \in {SetColumn(monthly, "Cluster", LAMBDA i : IntToStr(L[i]))} :
                        ret' = [Outcome("spending_clusters", df, 0, "returned", <<>>,
                                        clustered, {}, TRUE)
                                    EXCEPT !.summary = ClusterSummary(clustered)]

(***************************************************************************)
(* visualize.py: plot_monthly_expenses                                     *)
(***************************************************************************)
\* df["Date"] = pd.to_datetime(df["Date"])
\* df["Month"] = df["Date"].dt.to_period("M").dt.to_timestamp()
MonthlyExpensesTable(f) ==
    SetColumn(f, "Month", LAMBDA i : ToTimestamp(ToPeriod(f.rows[i].Date)))

\* st.selectbox over no options gives None, which is no key of month_map
PlotMonthlyExpenses ==
    /\ df' = MonthlyExpensesTable(df)
    /\ ret' = IF df.rows = <<>>
              THEN Outcome("plot_monthly_expenses", df, 0, "raised", <<>>, EmptyFrame,
                           {"KeyError"}, FALSE)
              ELSE Outcome("plot_monthly_expenses", df, 0, "returned", <<>>, EmptyFrame,
                           {}, FALSE)
    /\ UNCHANGED <<session, isoMemo>>

(***************************************************************************)
(* visualize.py: plot_category_spending, plot_monthly_trends               *)
(***************************************************************************)
\* expenses = df[(df["Category"] != "Salary") & (df["Amount"] < 0)]
CategoryExpenses(f) == Filter(f, LAMBDA r : r.Category # "Salary" /\ r.Amount < 0)

PlotCategorySpending ==
    /\ ret' = Outcome("plot_category_spending", df, 0, "returned", <<>>, EmptyFrame,
                      IF IsEmpty(df) THEN {"warning: No data to plot category spending."}
                      ELSE IF IsEmpty(CategoryExpenses(df))
                           THEN {"warning: No expense data to plot."}
                           ELSE {"chart"},
                      FALSE)
    /\ UNCHANGED <<session, df, isoMemo>>

\* monthly = expenses.groupby(expenses["Month"])["Amount"].sum().reset_index()
MonthlyTrend(f) == GroupSum(Expenses(f), LAMBDA r : r.Month, CellLess)

PlotMonthlyTrends ==
    /\ ret' = Outcome("plot_monthly_trends", df, 0, "returned", <<>>, EmptyFrame,
                      IF IsEmpty(df) THEN {"warning: No data to plot monthly trends."}
                      ELSE IF MonthlyTrend(df) = <<>>
                           THEN {"warning: No expense data to plot monthly trends."}
                           ELSE {"chart"},
                      FALSE)
    /\ UNCHANGED <<session, df, isoMemo>>

(***************************************************************************)
(* app.py: main                                                            *)
(***************************************************************************)
\* df["Category"].unique()
Categories(f) == {f.rows[i].Category : i \in 1..Len(f.rows)}

\* df_filtered = df[df["Category"].isin(categories)]
FilterByCategory(f, categories) == Filter(f, LAMBDA r : r.Category \in categories)

\* the selections of the sidebar that are run: the default, every category
\* of the table, and no category at all
Selections(f) == {Categories(f), {}}

\* a run of the script on the table of the session: the categories picked in
\* the sidebar select the rows the components of this run are given
Rerun ==
    /\ ~IsEmpty(session)
    /\ \E categories \in Selections(session) :
          df' = FilterByCategory(session, categories)
    /\ ret' = NoCall
    /\ UNCHANGED <<session, isoMemo>>

\* the dashboard is shown for a loaded table that is not empty, with every
\* category selected
Init ==
    /\ session \in {LoadData(rows) : rows \in Ledgers}
    /\ ~IsEmpty(session)
    /\ df = session
    /\ isoMemo = <<>>
    /\ ret = NoCall

Next ==
    \/ Rerun
    \/ ComputeKpis
    \/ PlotCategorySpending
    \/ PlotMonthlyTrends
    \/ PlotMonthlyExpenses
    \/ ShowAnomalies
    \/ ForecastExpenses
    \/ SpendingClusters

Spec == Init /\ [][Next]_vars

\* the Date texts of a CSV file or of a manually entered table
TextDates == <<<<2025, 1, 15>>, <<2025, 1, 1>>, <<2024, 1, 15>>, <<2024, 12, 15>>>>
TextRow(d) == [Date |-> d, Category |-> "Food", Amount |-> -1]
TextTables ==
    UNION {[1..n -> {TextRow(TextDates[k]) : k \in DOMAIN TextDates}] : n \in 0..MaxRows}

(***************************************************************************)
(* app.py: main from the upload on, over a sequence of reruns in which the *)
(* uploaded file, the "Use default CSV" box and the default file change.   *)
(***************************************************************************)
\* Python's None: no uploaded file, no table loaded, no 'df' in the session
None == [none |-> TRUE]

\* st.file_uploader: the uploaded CSV file, or None
Upload(file) == [name |-> "upload.csv", file |-> file]
UploadedFiles == {Upload(file) : file \in TextTables} \cup {None}

\* the rows of ../Sample_Data/default_transactions.csv
DefaultFile == <<TextRow(TextDates[1]), TextRow(TextDates[2])>>

\* lines 72-80: the table loaded by this run, or None
Loaded(uploaded_file, use_default, exists) ==
    IF uploaded_file # None THEN LoadData(ReadCsv(uploaded_file.file))
    ELSE IF use_default /\ exists THEN LoadData(ReadCsv(DefaultFile))
    ELSE None

\* lines 68-70 and 82-83: the table under 'df' in the session state after the
\* load of this run, or None when there is none
SessionAfter(stored, uploaded_file, use_default, loaded) ==
    IF loaded # None THEN loaded
    ELSE IF uploaded_file = None /\ ~use_default THEN None
    ELSE stored

\* one run of main: the inputs of the widgets, the load, the session state
\* and either the dashboard on the filtered table or the invitation to upload
Main ==
    \E uploaded_file \in UploadedFiles, use_default \in BOOLEAN, exists \in BOOLEAN :
    \E loaded \in {Loaded(uploaded_file, use_default, exists)} :
    \E stored \in {SessionAfter(session, uploaded_file, use_default, loaded)} :
    \E shown \in {stored # None /\ ~IsEmpty(stored)} :
    \E categories \in IF shown THEN Selections(stored) ELSE {{}} :
    \E df_filtered \in {IF shown THEN FilterByCategory(stored, categories) ELSE EmptyFrame} :
        /\ session' = stored
        /\ df' = df_filtered
        /\ ret' = [Outcome("main",
                           [uploaded_file |-> uploaded_file, use_default |-> use_default,
                            exists |-> exists],
                           0, "returned", <<>>, df_filtered,
                           (IF shown THEN {"dashboard"}
                            ELSE {"info: Upload a CSV or select default CSV to view the dashboard."})
                             \cup (IF uploaded_file = None /\ use_default /\ ~exists
                                   THEN {"error: Default CSV not found."} ELSE {}),
                           FALSE)
                      EXCEPT !.value = loaded]
        /\ UNCHANGED isoMemo

\* a new browser session: nothing stored, nothing run
MainInit ==
    /\ session = None
    /\ df = EmptyFrame
    /\ isoMemo = <<>>
    /\ ret = NoCall

MainNext == Main

MainSpec == MainInit /\ [][MainNext]_vars

(***************************************************************************)
(* The helpers of utils.py on enumerated arguments.  Each call leaves the  *)
(* tables of the dashboard alone and returns a value.                      *)
(***************************************************************************)
\* the outcome of a call that returns value on the argument arg
Returned(op, arg, value) ==
    [Outcome(op, arg, 0, "returned", <<>>, EmptyFrame, {}, FALSE)
        EXCEPT !.value = value]

\* means and thresholds of describe_cluster
Levels == {Frac(n, 1) : n \in 0..MaxLevel}

\* dates of the series of months_sorted
SeriesDates ==
    <<Timestamp(2025, 1, 1, 0), Timestamp(2025, 1, 15, 0),
      Timestamp(2025, 2, 1, 0), Timestamp(2024, 2, 1, 0)>>
SeriesOfDates ==
    UNION {[1..n -> Values(SeriesDates)] : n \in 0..MaxSeries}

LoadDataCall ==
    /\ \E file \in TextTables :
          ret' = Returned("load_data", file, LoadData(ReadCsv(file)))
    /\ UNCHANGED <<session, df, isoMemo>>

PreprocessDataCall ==
    /\ \E rows \in TextTables :
          ret' = Returned("preprocess_data", rows,
                          PreprocessData(Frame({"Date", "Category", "Amount"}, rows)))
    /\ UNCHANGED <<session, df, isoMemo>>

DescribeClusterCall ==
    /\ \E avg \in Levels, q1 \in Levels, q2 \in Levels :
          ret' = Returned("describe_cluster", <<avg, q1, q2>>,
                          DescribeCluster(avg, q1, q2))
    /\ UNCHANGED <<session, df, isoMemo>>

MonthsSortedCall ==
    /\ \E series \in SeriesOfDates :
          ret' = Returned("months_sorted", series, MonthsSorted(series))
    /\ UNCHANGED <<session, df, isoMemo>>

\* cluster ids handed to color_dot: the keys of the palette, the label of a
\* missing cluster and a fourth id
DotClusters == (DOMAIN ClusterColors) \cup {"3", "nan"}

ColorDotCall ==
    /\ \E cluster \in DotClusters :
          ret' = Returned("color_dot", <<cluster, ClusterColors>>,
                          ColorDot(cluster, ClusterColors))
    /\ UNCHANGED <<session, df, isoMemo>>

\* the helpers are called next to the clustering of the longest monthly
\* ledger, which uses months_sorted, describe_cluster and color_dot for its
\* explanation
UtilsInit ==
    /\ session \in {LoadData(rows) : rows \in {r \in MonthlyLedgers : Len(r) = MaxMonths}}
    /\ df = session
    /\ isoMemo = <<>>
    /\ ret = NoCall

UtilsNext ==
    \/ LoadDataCall
    \/ PreprocessDataCall
    \/ DescribeClusterCall
    \/ MonthsSortedCall
    \/ ColorDotCall
    \/ SpendingClusters

UtilsSpec == UtilsInit /\ [][UtilsNext]_vars

(***************************************************************************)
(* Properties.  They are stated on the outcome of the last call (ret) and  *)
(* on the table it was given (ret.arg), with the quantities of each claim  *)
(* computed from the rows directly.                                        *)
(***************************************************************************)
Called(op) == ret.op = op
Rows == ret.arg.rows
RowIds == 1..Len(Rows)

\* the calendar months of the given rows, as <<year, month>>
MonthOf(r) == <<r.Date.y, r.Date.m>>
ObservedMonths == {MonthOf(Rows[i]) : i \in RowIds}
ExpenseMonths == {MonthOf(Rows[i]) : i \in {j \in RowIds : Rows[j].Amount < 0}}

SalarySum == SumSeq([i \in RowIds |-> IF Rows[i].Category = "Salary" THEN Rows[i].Amount ELSE 0])
ExpenseSum == SumSeq([i \in RowIds |-> IF Rows[i].Amount < 0 THEN -Rows[i].Amount ELSE 0])

\* the fraction q equals a / b
Equals(q, a, b) == q.n * b = a * q.d

\* C1: on a non-empty table with M distinct months, compute_kpis returns
\* income = (sum of the Salary amounts) / M, expense = (sum of |amount| over
\* the negative amounts) / M and savings = income - expense.
C1_KpiAverages ==
    (Called("compute_kpis") /\ Rows # <<>>) =>
        LET M == Cardinality(ObservedMonths)
        IN  /\ ret.outcome = "returned"
            /\ Equals(ret.kpis[1], SalarySum, M)
            /\ Equals(ret.kpis[2], ExpenseSum, M)
            /\ Equals(ret.kpis[3], SalarySum - ExpenseSum, M)

\* a salary month without expenses and an expense month: two months counted
C1_Witness ==
    /\ Called("compute_kpis")
    /\ Cardinality(ObservedMonths) = 2
    /\ Cardinality(ExpenseMonths) = 1
    /\ SalarySum > 0
    /\ ExpenseSum > 0

\* C2: the savings rate is savings / income * 100 when the Salary total is
\* positive and 0 otherwise; a table of expense rows without any Salary row
\* has income 0 and savings rate 0.
C2_SavingsRate ==
    (Called("compute_kpis") /\ Rows # <<>>) =>
        /\ SalarySum > 0 => Equals(ret.kpis[4], 100 * (SalarySum - ExpenseSum), SalarySum)
        /\ SalarySum <= 0 => ret.kpis[4].n = 0
        /\ (\A i \in RowIds : Rows[i].Category # "Salary" /\ Rows[i].Amount < 0) =>
              ret.kpis[1].n = 0 /\ ret.kpis[4].n = 0

\* only expense rows: the savings are negative and the rate is still 0
C2_Witness ==
    /\ Called("compute_kpis")
    /\ Rows # <<>>
    /\ \A i \in RowIds : Rows[i].Category # "Salary" /\ Rows[i].Amount < 0
    /\ ret.kpis[3].n < 0
    /\ ret.kpis[4].n = 0

\* C3: on the empty table compute_kpis returns (0, 0, 0, 0) and
\* show_anomalies, forecast_expenses and spending_clusters return the empty
\* frame, none of them raising.
C3_EmptyDefaults ==
    Rows = <<>> =>
        /\ Called("compute_kpis") =>
              ret.outcome = "returned" /\ \A k \in 1..4 : ret.kpis[k].n = 0
        /\ (Called("show_anomalies") \/ Called("forecast_expenses")
                \/ Called("spending_clusters")) =>
              ret.outcome = "returned" /\ ret.frame = EmptyFrame /\ ~ret.fitted

C3_Witness == Called("show_anomalies") /\ Rows = <<>> /\ ret.frame = EmptyFrame

\* C4: on a table with fewer than 6 distinct months forecast_expenses
\* returns an empty result for every horizon, without raising and without
\* fitting the model.
C4_TooFewMonths ==
    (Called("forecast_expenses") /\ Cardinality(ObservedMonths) < 6) =>
        ret.outcome = "returned" /\ ret.frame = EmptyFrame /\ ~ret.fitted

\* five observed months, one short of the minimum
C4_Witness ==
    /\ Called("forecast_expenses")
    /\ Cardinality(ObservedMonths) = 5
    /\ ret.horizon = MaxHorizon
    /\ ret.frame = EmptyFrame

\* the "YYYY-MM" label of the calendar month after the one labelled l
NextLabel(l) == IF l[2] = 12 THEN <<l[1] + 1, 1>> ELSE <<l[1], l[2] + 1>>
LabelLess(a, b) == a[1] < b[1] \/ (a[1] = b[1] /\ a[2] < b[2])
LastExpenseMonth == CHOOSE l \in ExpenseMonths : \A o \in ExpenseMonths : ~LabelLess(l, o)
FirstExpenseMonth == CHOOSE l \in ExpenseMonths : \A o \in ExpenseMonths : ~LabelLess(o, l)

\* the observed months follow one another without a missing month
ConsecutiveMonths ==
    \A l \in ExpenseMonths : l = LastExpenseMonth \/ NextLabel(l) \in ExpenseMonths

\* the returned rows are labelled with the months that follow the last
\* observed month, one month per row
LabelsFollowLastMonth ==
    /\ ret.frame.rows # <<>> => ret.frame.rows[1].Month = NextLabel(LastExpenseMonth)
    /\ \A i \in 1..(Len(ret.frame.rows) - 1) :
          ret.frame.rows[i + 1].Month = NextLabel(ret.frame.rows[i].Month)

\* C5 as stated: with 6 or more monthly observations and any horizon N,
\* forecast_expenses returns exactly N rows labelled with the months that
\* follow the last observed month.
C5_AlwaysNRows ==
    (Called("forecast_expenses") /\ Cardinality(ExpenseMonths) >= 6) =>
        /\ ret.outcome = "returned"
        /\ Len(ret.frame.rows) = ret.horizon
        /\ LabelsFollowLastMonth

\* C5 amended: with 6 or more monthly observations in consecutive months, a
\* horizon N >= 1 and a fit that succeeds, forecast_expenses returns exactly
\* N rows labelled with the months that follow the last observed month; when
\* the fit fails it returns the empty frame.
C5_NRowsAfterFit ==
    (Called("forecast_expenses") /\ Cardinality(ExpenseMonths) >= 6) =>
        /\ ("error: Forecasting error" \in ret.status) =>
              ret.outcome = "returned" /\ ret.frame = EmptyFrame
        /\ (ConsecutiveMonths /\ ret.horizon >= 1
                /\ "error: Forecasting error" \notin ret.status) =>
              /\ ret.outcome = "returned"
              /\ ret.frame.columns = {"Month", "Predicted_Expense", "Lower_CI", "Upper_CI"}
              /\ Len(ret.frame.rows) = ret.horizon
              /\ LabelsFollowLastMonth

\* a forecast of MaxHorizon months that starts in the January after a series
\* ending in December
C5_Witness ==
    /\ Called("forecast_expenses")
    /\ Cardinality(ExpenseMonths) >= 6
    /\ LastExpenseMonth[2] = 12
    /\ Len(ret.frame.rows) = MaxHorizon
    /\ ret.frame.rows[1].Month = <<LastExpenseMonth[1] + 1, 1>>

\* C6: no failure of the forecast escapes forecast_expenses: the call never
\* raises.
C6_NeverRaises == Called("forecast_expenses") => ret.outcome # "raised"

\* the rows of the table after the call that the model labelled anomalous
FlaggedIds == {i \in 1..Len(df.rows) : df.rows[i].Anomaly = -1}

\* C7: on a non-empty table show_anomalies returns exactly the rows labelled
\* -1, none labelled 1, each with its original columns and the Anomaly label.
C7_ExactlyTheFlagged ==
    (Called("show_anomalies") /\ Rows # <<>>) =>
        /\ ret.outcome = "returned"
        /\ ret.frame.columns = ret.arg.columns \cup {"Anomaly"}
        /\ Len(ret.frame.rows) = Cardinality(FlaggedIds)
        /\ \A k \in 1..Len(ret.frame.rows) :
              /\ DOMAIN ret.frame.rows[k] = ret.frame.columns
              /\ ret.frame.rows[k].Anomaly = -1
              /\ \E i \in FlaggedIds :
                    \A c \in ret.arg.columns \ {"Anomaly"} : ret.frame.rows[k][c] = Rows[i][c]
        /\ \A i \in FlaggedIds :
              \E k \in 1..Len(ret.frame.rows) :
                    \A c \in ret.arg.columns \ {"Anomaly"} : ret.frame.rows[k][c] = Rows[i][c]

\* one row flagged, another one not
C7_Witness ==
    /\ Called("show_anomalies")
    /\ Len(ret.frame.rows) = 1
    /\ Len(df.rows) > 1
    /\ \E i \in 1..Len(df.rows) : df.rows[i].Anomaly = 1

Degenerate == Cardinality({Rows[i].Amount : i \in RowIds}) < 2

\* C8 as stated: with fewer than 2 distinct amounts show_anomalies returns an
\* empty flagged set without fitting the model and without raising.
C8_ShortCircuits ==
    (Called("show_anomalies") /\ Degenerate) =>
        ret.outcome = "returned" /\ ret.frame.rows = <<>> /\ ~ret.fitted

\* C8 amended: on a non-empty table with fewer than 2 distinct amounts
\* show_anomalies fits the model as on any other table; the model labels
\* every row normal, so the flagged set is empty and nothing is raised.  Only
\* the empty table returns without fitting.
C8_DegenerateAllNormal ==
    (Called("show_anomalies") /\ Degenerate) =>
        /\ ret.outcome = "returned"
        /\ ret.frame.rows = <<>>
        /\ ret.fitted <=> Rows # <<>>
        /\ Rows # <<>> => \A i \in 1..Len(df.rows) : df.rows[i].Anomaly = 1

\* two rows of one amount, fitted and both labelled normal
C8_Witness ==
    /\ Called("show_anomalies")
    /\ Len(Rows) = 2
    /\ Degenerate
    /\ ret.fitted
    /\ ret.frame.rows = <<>>

\* C9: a run of show_anomalies on a table that an earlier run has labelled
\* gives every transaction the label the earlier run gave it.
C9_SameLabels ==
    (Called("show_anomalies") /\ "Anomaly" \in ret.arg.columns) =>
        \A i \in RowIds : df.rows[i].Anomaly = Rows[i].Anomaly

\* a second run on a table in which the first run flagged a row
C9_Witness ==
    /\ Called("show_anomalies")
    /\ "Anomaly" \in ret.arg.columns
    /\ \E i \in RowIds : Rows[i].Anomaly = -1
    /\ \E i \in RowIds : Rows[i].Anomaly = 1

\* the calendar month a Month text of the result stands for
TextMonth(t) == <<t[1], t[2]>>
ResultMonths == {TextMonth(ret.frame.rows[k].Month) : k \in 1..Len(ret.frame.rows)}

\* C10 as stated: spending_clusters returns one row per month observed in
\* the table.
C10_RowPerObservedMonth ==
    (Called("spending_clusters") /\ Rows # <<>>) =>
        /\ ret.outcome = "returned"
        /\ ResultMonths = ObservedMonths
        /\ Len(ret.frame.rows) = Cardinality(ObservedMonths)

\* C10 amended: on a non-empty table spending_clusters returns one row per
\* month that has at least one row with Amount < 0; a month without expense
\* rows is not in the result.
C10_RowPerExpenseMonth ==
    (Called("spending_clusters") /\ Rows # <<>>) =>
        /\ ret.outcome = "returned"
        /\ ResultMonths = ExpenseMonths
        /\ Len(ret.frame.rows) = Cardinality(ExpenseMonths)

\* a month with an expense is returned, a month with income only is not
C10_Witness ==
    /\ Called("spending_clusters")
    /\ Cardinality(ObservedMonths) = 2
    /\ Len(ret.frame.rows) = 1
    /\ "Cluster" \in ret.frame.columns

\* the cluster ids of the returned rows, and the ids KMeans gives k clusters
FrameClusters == {ret.frame.rows[k].Cluster : k \in 1..Len(ret.frame.rows)}
IdsBelow(k) == {IntToStr(j) : j \in 0..(k - 1)}

\* C11: with n >= 1 months in the monthly expense aggregate spending_clusters
\* clusters with k = min(3, n): it returns the n months, each with one
\* cluster id out of the k ids, so at most k distinct ids occur; a single
\* month is returned with exactly one cluster.  The call does not raise.
C11_AtMostKClusters ==
    (Called("spending_clusters") /\ Cardinality(ExpenseMonths) >= 1) =>
        LET n == Cardinality(ExpenseMonths)
            k == IF n < 3 THEN n ELSE 3
        IN  /\ ret.outcome = "returned"
            /\ Len(ret.frame.rows) = n
            /\ "Cluster" \in ret.frame.columns
            /\ \A i \in 1..n :
                  /\ "Cluster" \in DOMAIN ret.frame.rows[i]
                  /\ ret.frame.rows[i].Cluster \in IdsBelow(k)
            /\ Cardinality(FrameClusters) <= k
            /\ n = 1 => Cardinality(FrameClusters) = 1

\* more than three months in three clusters
C11_Witness ==
    /\ Called("spending_clusters")
    /\ Cardinality(ExpenseMonths) > 3
    /\ Len(ret.frame.rows) = Cardinality(ExpenseMonths)
    /\ Cardinality(FrameClusters) = 3

\* C12: on a non-empty table without any expense row spending_clusters
\* reports that the data are not enough and returns the empty monthly
\* aggregate, without a Cluster column, without clustering or explaining and
\* without raising.
C12_NoExpenseRows ==
    (Called("spending_clusters") /\ Rows # <<>> /\ ExpenseMonths = {}) =>
        /\ ret.outcome = "returned"
        /\ ret.status = {"warning: Not enough data to perform clustering."}
        /\ ret.frame.rows = <<>>
        /\ ret.frame.columns = {"Month", "Amount", "Month_dt"}
        /\ ~ret.fitted
        /\ ret.summary = EmptyFrame

\* a table of two rows with amounts above 0 only
C12_Witness ==
    /\ Called("spending_clusters")
    /\ Len(Rows) = 2
    /\ \A i \in RowIds : Rows[i].Amount > 0
    /\ ret.frame.rows = <<>>
    /\ "Amount" \in ret.frame.columns

\* the positions, in the returned rows, of the months of cluster c
MembersOf(c) ==
    SelectSeq([k \in 1..Len(ret.frame.rows) |-> k],
              LAMBDA k : ret.frame.rows[k].Cluster = c)

\* C13: the explanation has one row per cluster id of the assignment; its
\* Amount is the mean of the monthly totals of the cluster's months and its
\* Months names those months, one entry each, in chronological order.
C13_ExplanationRows ==
    (Called("spending_clusters") /\ ret.fitted) =>
        LET S == ret.summary.rows
        IN  /\ ret.summary.columns = {"Cluster", "Description", "Amount", "Months", "Color"}
            /\ {S[i].Cluster : i \in 1..Len(S)} = FrameClusters
            /\ Len(S) = Cardinality(FrameClusters)
            /\ \A i \in 1..Len(S) :
                  LET idx == MembersOf(S[i].Cluster)
                      total == SumSeq([j \in 1..Len(idx) |-> ret.frame.rows[idx[j]].Amount])
                  IN  /\ Equals(S[i].Amount, total, Len(idx))
                      /\ Len(S[i].Months) = Len(idx)
                      /\ \A j \in 1..Len(idx) :
                            S[i].Months[j] = MonthAbbr[TextMonth(ret.frame.rows[idx[j]].Month)[2]]
                      /\ \A j \in 1..(Len(idx) - 1) :
                            LabelLess(TextMonth(ret.frame.rows[idx[j]].Month),
                                      TextMonth(ret.frame.rows[idx[j + 1]].Month))

\* a cluster of three months that runs over the turn of the year
C13_Witness ==
    /\ Called("spending_clusters")
    /\ Len(ret.summary.rows) = 3
    /\ \E i \in 1..Len(ret.summary.rows) :
          /\ ret.summary.rows[i].Months = <<"Jul", "Oct", "Jan">>
          /\ ret.summary.rows[i].Amount = Frac(6, 3)

\* the rank of a description: Low < Medium < High
Tier(description) ==
    CASE description = "Low spending month" -> 1
      [] description = "Medium spending month" -> 2
      [] description = "High spending month" -> 3

\* the number of clusters of the explanation with a mean below that of row i
Below(i) ==
    Cardinality({j \in 1..Len(ret.summary.rows) :
                    FracLess(ret.summary.rows[j].Amount, ret.summary.rows[i].Amount)})

\* C14: within one explanation a cluster with a lower mean never has a
\* higher label than a cluster with a higher mean.  With the thresholds at
\* the 33rd and 66th percentile of the means, the cluster of the lowest of
\* two or three different means is Low, the middle one of three is Medium
\* and the cluster of the highest mean is High.
C14_LabelsMonotonic ==
    Called("spending_clusters") =>
        LET S == ret.summary.rows
        IN  /\ \A i, j \in 1..Len(S) :
                  FracLess(S[i].Amount, S[j].Amount) =>
                      Tier(S[i].Description) <= Tier(S[j].Description)
            /\ (\A i, j \in 1..Len(S) : i # j => ~FracEq(S[i].Amount, S[j].Amount)) =>
                  \A i \in 1..Len(S) :
                      Tier(S[i].Description) =
                          IF Below(i) = Len(S) - 1 THEN 3
                          ELSE IF Below(i) = 0 THEN 1 ELSE 2

\* three clusters with three different means and all three labels
C14_Witness ==
    /\ Called("spending_clusters")
    /\ Len(ret.summary.rows) = 3
    /\ {Tier(ret.summary.rows[i].Description) : i \in 1..3} = {1, 2, 3}
    /\ \A i, j \in 1..3 :
          i # j => ~FracEq(ret.summary.rows[i].Amount, ret.summary.rows[j].Amount)

\* describe_cluster gave the label that the conditions of its tiers give
TiersAsCompared ==
    LET avg == ret.arg[1]
        q1 == ret.arg[2]
        q2 == ret.arg[3]
    IN  /\ ret.value = "Low spending month" <=> FracLess(avg, q1)
        /\ ret.value = "Medium spending month" <=>
              (~FracLess(avg, q1) /\ FracLess(avg, q2))
        /\ ret.value = "High spending month" <=>
              ~(FracLess(avg, q1) \/ (~FracLess(avg, q1) /\ FracLess(avg, q2)))

\* C15 as stated: describe_cluster returns Low exactly when avg < q1, Medium
\* exactly when q1 <= avg < q2 and High otherwise, and avg = q1 gives
\* Medium, avg = q2 gives High, for all avg, q1 and q2.
C15_TiersAnyThresholds ==
    Called("describe_cluster") =>
        /\ TiersAsCompared
        /\ FracEq(ret.arg[1], ret.arg[2]) => ret.value = "Medium spending month"
        /\ FracEq(ret.arg[1], ret.arg[3]) => ret.value = "High spending month"

\* C15 amended: describe_cluster returns Low exactly when avg < q1, Medium
\* exactly when q1 <= avg < q2 and High otherwise.  With q1 < q2 a value
\* equal to a threshold is in the next tier up: avg = q1 gives Medium and
\* avg = q2 gives High.  With q1 >= q2 no value is Medium: avg = q1 gives
\* High, and avg = q2 gives Low when q2 < q1.
C15_TiersOrderedThresholds ==
    Called("describe_cluster") =>
        LET avg == ret.arg[1]
            q1 == ret.arg[2]
            q2 == ret.arg[3]
        IN  /\ TiersAsCompared
            /\ FracLess(q1, q2) =>
                  /\ FracEq(avg, q1) => ret.value = "Medium spending month"
                  /\ FracEq(avg, q2) => ret.value = "High spending month"
            /\ ~FracLess(q1, q2) =>
                  /\ ret.value # "Medium spending month"
                  /\ FracEq(avg, q1) => ret.value = "High spending month"
                  /\ (FracEq(avg, q2) /\ FracLess(q2, q1)) =>
                        ret.value = "Low spending month"

\* a mean on the lower of two ordered thresholds
C15_Witness ==
    /\ Called("describe_cluster")
    /\ FracEq(ret.arg[1], ret.arg[2])
    /\ FracLess(ret.arg[2], ret.arg[3])
    /\ ret.value = "Medium spending month"

\* the number of dates of the given series in calendar month m
InMonth(m) == Cardinality({i \in 1..Len(ret.arg) : ret.arg[i].m = m})
JanJanFeb == Len(ret.arg) = 3 /\ InMonth(1) = 2 /\ InMonth(2) = 1

\* C16 as stated: a series of three dates in January, January and February,
\* in any years and any order, is rendered "Jan, Jan, Feb"; every rendering
\* has one month name per date and the empty series gives the empty text.
C16_JanJanFebAnyYears ==
    Called("months_sorted") =>
        /\ JanJanFeb => ret.value = <<"Jan", "Jan", "Feb">>
        /\ Len(ret.value) = Len(ret.arg)
        /\ ret.arg = <<>> => ret.value = <<>>

\* C16 amended: months_sorted renders the month names of the dates in the
\* order of the dates (year and day included), one name per date, and the
\* empty series as the empty text.  Three dates in January, January and
\* February are rendered "Jan, Jan, Feb" when the February date is the
\* latest of the three, in any input order, and "Feb, Jan, Jan" when it is
\* the earliest.
C16_OrderOfDates ==
    Called("months_sorted") =>
        /\ Len(ret.value) = Len(ret.arg)
        /\ ret.arg = <<>> => ret.value = <<>>
        /\ \E p \in Permutations(1..Len(ret.arg)) :
              /\ \A i \in 1..Len(ret.arg) : ret.value[i] = MonthAbbr[ret.arg[p[i]].m]
              /\ \A i \in 1..(Len(ret.arg) - 1) :
                    ~TimestampLess(ret.arg[p[i + 1]], ret.arg[p[i]])
        /\ JanJanFeb =>
              LET feb == CHOOSE i \in 1..3 : ret.arg[i].m = 2
              IN  /\ (\A i \in 1..3 : i # feb => TimestampLess(ret.arg[i], ret.arg[feb]))
                        => ret.value = <<"Jan", "Jan", "Feb">>
                  /\ (\A i \in 1..3 : i # feb => TimestampLess(ret.arg[feb], ret.arg[i]))
                        => ret.value = <<"Feb", "Jan", "Jan">>

\* the February date given first and rendered last
C16_Witness ==
    /\ Called("months_sorted")
    /\ JanJanFeb
    /\ ret.arg[1].m = 2
    /\ ret.arg[2] # ret.arg[3]
    /\ ret.value = <<"Jan", "Jan", "Feb">>

\* C17: color_dot renders the palette color of a cluster id that is a key of
\* the palette and gray for every other id; every cluster id produced by
\* spending_clusters is a key of its palette of three colors, so no cluster
\* of an explanation is rendered gray.
C17_PaletteColors ==
    /\ Called("color_dot") =>
          LET cluster == ret.arg[1]
              palette == ret.arg[2]
          IN  /\ cluster \in DOMAIN palette => ret.value[2] = palette[cluster]
              /\ cluster \notin DOMAIN palette => ret.value[2] = "gray"
              /\ ret.value[1] = "<span style='color:"
              /\ ret.value[3] = "; font-size:20px;'>&#9679;</span>"
    /\ Called("spending_clusters") =>
          /\ Cardinality(DOMAIN ClusterColors) = 3
          /\ FrameClusters \subseteq DOMAIN ClusterColors
          /\ \A i \in 1..Len(ret.summary.rows) :
                /\ ret.summary.rows[i].Cluster \in DOMAIN ClusterColors
                /\ ret.summary.rows[i].Color[2] = ClusterColors[ret.summary.rows[i].Cluster]
                /\ ret.summary.rows[i].Color[2] # "gray"

\* an explanation of three clusters, each with its own palette color
C17_Witness ==
    /\ Called("spending_clusters")
    /\ FrameClusters = {"0", "1", "2"}
    /\ {ret.summary.rows[i].Color[2] : i \in 1..Len(ret.summary.rows)}
          = {"rgb(220, 20, 60)", "rgb(34, 139, 34)", "rgb(30, 144, 255)"}

\* the components that analyse the table
Analytical == {"compute_kpis", "show_anomalies", "forecast_expenses", "spending_clusters"}

\* C18: after a call of an analytical component the table it was given has
\* the columns and the cells it had before the call.
C18_TableUntouched ==
    ret.op \in Analytical =>
        /\ df.columns = ret.arg.columns
        /\ Len(df.rows) = Len(Rows)
        /\ \A i \in RowIds : \A c \in ret.arg.columns : df.rows[i][c] = Rows[i][c]

\* C19: a component that is given the empty table completes without raising.
C19_EmptyNeverRaises ==
    (ret.op # "none" /\ Rows = <<>>) => ret.outcome = "returned"

\* the calendar month of a Date text "YYYY-MM-DD", as <<year, month>>
TextMonthOf(r) == <<r.Date[1], r.Date[2]>>

\* C20: load_data and preprocess_data give every row the Month of the
\* calendar year and month of its Date, so two rows have the same Month
\* exactly when their dates are in the same month of the same year.
C20_MonthKey ==
    (Called("load_data") \/ Called("preprocess_data")) =>
        LET given == ret.arg
            table == ret.value
        IN  /\ table.columns = {"Date", "Category", "Amount", "Month"}
            /\ Len(table.rows) = Len(given)
            /\ \A i \in 1..Len(given) :
                  /\ table.rows[i].Month = Period(given[i].Date[1], given[i].Date[2])
                  /\ table.rows[i].Date =
                        Timestamp(given[i].Date[1], given[i].Date[2], given[i].Date[3], 0)
            /\ \A i, j \in 1..Len(given) :
                  table.rows[i].Month = table.rows[j].Month
                      <=> TextMonthOf(given[i]) = TextMonthOf(given[j])

\* two rows of one month on different days share their Month
C20_Witness ==
    /\ Called("preprocess_data")
    /\ Len(ret.arg) = 2
    /\ TextMonthOf(ret.arg[1]) = TextMonthOf(ret.arg[2])
    /\ ret.arg[1].Date[3] # ret.arg[2].Date[3]
    /\ ret.value.rows[1].Month = ret.value.rows[2].Month

\* the table of the run before any component has touched it: the rows of the
\* session in the categories of the given table
Fresh == FilterByCategory(session, Categories(ret.arg))

\* the months, totals and dates of a monthly aggregate, cluster ids left out
MonthsAndTotals(f) ==
    [i \in 1..Len(f.rows) |->
        [Month |-> f.rows[i].Month, Amount |-> f.rows[i].Amount,
         Month_dt |-> f.rows[i].Month_dt]]

\* C21: whatever components have run before it on the filtered table of a
\* run, a component gives the result it gives on a fresh copy of that table:
\* the same KPIs, the same monthly series to forecast, the same amounts to
\* score, and spending_clusters is given the Month column as the year-month
\* key of each Date and returns the months it returns when it runs first.
C21_OrderIndependent ==
    /\ Called("compute_kpis") => ret.kpis = Kpis(Fresh)
    /\ Called("forecast_expenses") => MonthlySeries(ret.arg) = MonthlySeries(Fresh)
    /\ Called("show_anomalies") => IsoFeatures(ret.arg) = IsoFeatures(Fresh)
    /\ (Called("spending_clusters") /\ Rows # <<>>) =>
          /\ \A i \in RowIds : Rows[i].Month = Period(Rows[i].Date.y, Rows[i].Date.m)
          /\ MonthsAndTotals(ret.frame) = MonthsAndTotals(MonthlyAggregate(Fresh))

\* the total of |Amount| over the given rows of calendar month l with
\* Amount < 0
ExpenseTotal(l) ==
    SumSeq([i \in RowIds |->
               IF Rows[i].Amount < 0 /\ MonthOf(Rows[i]) = l THEN -Rows[i].Amount ELSE 0])

\* C22: on one table spending_clusters and forecast_expenses aggregate the
\* same monthly expense series: the same calendar months with the same
\* totals, each total the sum of |Amount| over the month's rows with
\* Amount < 0, the months in chronological order, and a month without an
\* expense row in neither.
C22_SameMonthlySeries ==
    (Called("spending_clusters") /\ Rows # <<>>) =>
        LET clustered == ret.frame.rows
            forecast == MonthlySeries(ret.arg)
        IN  /\ Len(clustered) = Len(forecast)
            /\ Len(clustered) = Cardinality(ExpenseMonths)
            /\ \A i \in 1..Len(clustered) :
                  /\ TextMonth(clustered[i].Month) = <<forecast[i].Month.y, forecast[i].Month.m>>
                  /\ clustered[i].Amount = forecast[i].Amount
                  /\ TextMonth(clustered[i].Month) \in ExpenseMonths
                  /\ clustered[i].Amount = ExpenseTotal(TextMonth(clustered[i].Month))
            /\ \A i \in 1..(Len(clustered) - 1) :
                  /\ LabelLess(TextMonth(clustered[i].Month), TextMonth(clustered[i + 1].Month))
                  /\ TimestampLess(forecast[i].Month, forecast[i + 1].Month)

\* two expense months given latest first, aggregated earliest first
C22_Witness ==
    /\ Called("spending_clusters")
    /\ Len(Rows) = 2
    /\ LabelLess(MonthOf(Rows[2]), MonthOf(Rows[1]))
    /\ Len(ret.frame.rows) = 2
    /\ TextMonth(ret.frame.rows[1].Month) = MonthOf(Rows[2])
    /\ MonthlySeries(ret.arg)[1].Amount = -Rows[2].Amount

\* C23: whenever a run of main shows the dashboard, the table shown is one
\* loaded in that run: a table stored by an earlier run is not shown once
\* the current run has loaded nothing.
C23_ShownIsLoadedNow ==
    (Called("main") /\ "dashboard" \in ret.status) =>
        /\ ret.value # None
        /\ session = ret.value

Hundred == Frac(100, 1)

\* C24: compute_kpis returns an average monthly expense that is not
\* negative, and whenever the total of the Salary amounts is above 0 the
\* savings rate is at most 100 percent and is 100 exactly when no row of the
\* table has a negative amount.
C24_KpiBounds ==
    Called("compute_kpis") =>
        /\ ret.kpis[2].d > 0 /\ ret.kpis[2].n >= 0
        /\ (Rows # <<>> /\ SalarySum > 0) =>
              /\ ~FracLess(Hundred, ret.kpis[4])
              /\ FracEq(ret.kpis[4], Hundred) <=> \A i \in RowIds : Rows[i].Amount >= 0

\* a Salary row and an expense booked under Salary in another month: the
\* rate is below 100 and above 0
C24_Witness ==
    /\ Called("compute_kpis")
    /\ Len(Rows) = 2
    /\ SalarySum > 0
    /\ \E i \in RowIds : Rows[i].Category = "Salary" /\ Rows[i].Amount < 0
    /\ Cardinality(ObservedMonths) = 2
    /\ FracLess(ret.kpis[4], Hundred)
    /\ FracLess(Zero, ret.kpis[4])

\* the rows of the explanation, and the row of a greatest mean
Explained == ret.summary.rows
Greatest(i) == \A j \in 1..Len(Explained) : ~FracLess(Explained[i].Amount, Explained[j].Amount)

\* C25: the labels of an explanation follow the rank of the means of the
\* clusters present.  A single cluster is High; of two clusters with
\* different means the lower is Low and the higher is High, none Medium; three
\* clusters with different means are Low, Medium and High in the order of
\* their means.  A cluster of the greatest mean is always High.
C25_LabelsByRank ==
    (Called("spending_clusters") /\ ret.fitted) =>
        LET n == Len(Explained)
            distinct == \A i, j \in 1..n :
                            i # j => ~FracEq(Explained[i].Amount, Explained[j].Amount)
        IN  /\ n \in 1..3
            /\ n = 1 => Explained[1].Description = "High spending month"
            /\ (n = 2 /\ distinct) =>
                  \A i \in 1..2 :
                      Explained[i].Description =
                          IF Greatest(i) THEN "High spending month" ELSE "Low spending month"
            /\ (n = 3 /\ distinct) =>
                  \A i \in 1..3 :
                      Explained[i].Description =
                          IF Greatest(i) THEN "High spending month"
                          ELSE IF Below(i) = 0 THEN "Low spending month"
                          ELSE "Medium spending month"
            /\ \A i \in 1..n : Greatest(i) => Explained[i].Description = "High spending month"

\* two months in two clusters, the cheaper one Low and the dearer one High
C25_Witness ==
    /\ Called("spending_clusters")
    /\ Cardinality(ExpenseMonths) = 2
    /\ Len(Explained) = 2
    /\ \E i, j \in 1..2 :
          /\ FracLess(Explained[i].Amount, Explained[j].Amount)
          /\ Explained[i].Description = "Low spending month"
          /\ Explained[j].Description = "High spending month"

====
